---------------------------- MODULE Spec2Model ----------------------------
(***************************************************************************)
(* The video-catalog HTTP service (server.js and its revisions).  Every    *)
(* handler reads the whole JSON document, mutates the parsed object and    *)
(* writes the whole document back.  The repository holds five revisions of *)
(* the service; the variable rev says which one is running.                *)
(*                                                                         *)
(*   Spec      requests are served one after another: a handler runs       *)
(*             readVideos, its mutation and writeVideos before the next    *)
(*             request is taken.                                           *)
(*   SpecRace  two requests are in flight; their readVideos and            *)
(*             writeVideos steps interleave at the two awaits of a handler.*)
(***************************************************************************)
EXTENDS Integers, Sequences, FiniteSets, TLC

\* Bound: a POST of a video is only issued while the document holds fewer
\* videos than this.
MaxVideos == 2

(***************************************************************************)
(* JavaScript values                                                       *)
(***************************************************************************)
\* The value of a body field or property that is not there.
Undefined == "<undefined>"

\* ToBoolean on the strings the requests carry: undefined and "" are falsy.
Truthy(v) == v /= Undefined /\ v /= ""

\* a || b
Or(a, b) == IF Truthy(a) THEN a ELSE b

\* Names every plain object inherits from Object.prototype: videos[name] is
\* truthy for them although the document has no such key.
ObjectProtoNames == {"constructor"}

\* Names every array inherits from Array.prototype whose value is a function.
ArrayProtoNames == {"push"}

(***************************************************************************)
(* The revisions                                                           *)
(***************************************************************************)
\* server_a: src/server.js 1-74     flat, video routes only
\* part_000: src/unnamed/part_000   flat, with category routes
\* server_b: src/server.js 75-244   thumbnailed, POST video creates the category,
\*           the one revision with PATCH video thumbnail
\* part_001: src/unnamed/part_001   thumbnailed, strict
\* server_c: src/server.js 245-394  thumbnailed, strict
Revisions == {"server_a", "part_000", "server_b", "part_001", "server_c"}

\* The shape videos[name] = { categoryThumbnail, videos } (else an array).
Thumbnailed(r) == r \in {"server_b", "part_001", "server_c"}

\* if (!videos[category]) videos[category] = <empty>   in POST video
AutoCreates(r) == r \in {"server_a", "part_000", "server_b"}

\* if (!title || !url) return 400   in POST video
ChecksTitleUrl(r) == r /= "part_001"

\* The routes a revision registers.
HasRoute(r, op) ==
    CASE op \in {"getVideos", "postVideo", "deleteVideo"} -> TRUE
      [] op \in {"getVideosByCategory", "getCategories", "postCategory",
                 "deleteCategory"} -> r /= "server_a"
      [] op = "patchCategoryThumbnail" -> Thumbnailed(r)
      [] op = "patchVideoThumbnail" -> r = "server_b"
      [] OTHER -> FALSE

(***************************************************************************)
(* The catalog: a function from the document's own keys to categories      *)
(***************************************************************************)
EmptyCatalog == [n \in {} |-> <<>>]

EmptyCategory(r) ==
    IF Thumbnailed(r) THEN [categoryThumbnail |-> "", videos |-> <<>>] ELSE <<>>

VideosOf(r, c) == IF Thumbnailed(r) THEN c.videos ELSE c

WithVideos(r, c, s) == IF Thumbnailed(r) THEN [c EXCEPT !.videos = s] ELSE s

\* Mutant of Put: the assignment replaces the catalog by the one entry.
Put_DropsOthers(videos, name, c) == [n \in {name} |-> c]

\* videos[name] = c
Put(videos, name, c) ==
    [n \in DOMAIN videos \cup {name} |-> IF n = name THEN c ELSE videos[n]]

\* delete videos[name]
Remove(videos, name) == [n \in DOMAIN videos \ {name} |-> videos[n]]

\* Whether videos[name] is truthy: an own key (arrays and objects are truthy)
\* or a member inherited from Object.prototype.
Has(videos, name) == name \in DOMAIN videos \/ name \in ObjectProtoNames

RECURSIVE TotalVideos(_, _, _)
\* The number of videos the categories `names` of a catalog hold.
TotalVideos(r, videos, names) ==
    IF names = {} THEN 0
    ELSE LET n == CHOOSE x \in names : TRUE
         IN  Len(VideosOf(r, videos[n])) + TotalVideos(r, videos, names \ {n})

(***************************************************************************)
(* JSON.stringify followed by JSON.parse: a property whose value is        *)
(* undefined is left out of the text, so it is absent after parsing.       *)
(***************************************************************************)
\* Mutant of JsonVideo: falsy values are left out as well.
JsonVideo_DropsFalsy(v) == [k \in {x \in DOMAIN v : Truthy(v[x])} |-> v[k]]

JsonVideo(v) == [k \in {x \in DOMAIN v : v[x] /= Undefined} |-> v[k]]

JsonSeq(s) == [i \in 1..Len(s) |-> JsonVideo(s[i])]

JsonCategory(r, c) == WithVideos(r, c, JsonSeq(VideosOf(r, c)))

JsonCatalog(r, videos) == [n \in DOMAIN videos |-> JsonCategory(r, videos[n])]

(***************************************************************************)
(* The store: DATA_FILE, readVideos and writeVideos                        *)
(***************************************************************************)
\* The document on disk: absent, unparsable, or the text of a catalog, which
\* is held here as the catalog JSON.parse makes of it.
NoFile == [state |-> "missing", data |-> EmptyCatalog]
BadFile == [state |-> "corrupt", data |-> EmptyCatalog]
GoodFile(videos) == [state |-> "ok", data |-> videos]

\* What fs.readFile + JSON.parse can do: an absent or unparsable document
\* always throws, a good one can still fail to be read.
ReadOutcomes(f) == IF f.state = "ok" THEN {"ok", "fail"} ELSE {"fail"}

\* What fs.writeFile can do: write the text, fail before touching the
\* document, or fail after truncating it.
WriteOutcomes == {"ok", "untouched", "truncated"}

\* try { return JSON.parse(await fs.readFile(..)) } catch { return {} }
readVideos(f, rd) == IF rd = "ok" /\ f.state = "ok" THEN f.data ELSE EmptyCatalog

\* Mutant of writeVideos: the catalog is merged into the document's entries
\* instead of replacing them.
writeVideos_Merges(f, r, videos, wr) ==
    CASE wr = "ok" ->
            GoodFile([n \in DOMAIN f.data \cup DOMAIN videos |->
                        IF n \in DOMAIN videos THEN JsonCategory(r, videos[n])
                        ELSE f.data[n]])
      [] wr = "untouched" -> f
      [] OTHER -> BadFile

\* try { await fs.writeFile(.., JSON.stringify(videos)) } catch { log }
\* The document after the call.
writeVideos(f, r, videos, wr) ==
    CASE wr = "ok" -> GoodFile(JsonCatalog(r, videos))
      [] wr = "untouched" -> f
      [] OTHER -> BadFile

(***************************************************************************)
(* What a handler does with the catalog readVideos gave it                 *)
(*   kind    "json"   res.json(body) with the status                       *)
(*           "object" res.json(body), body a whole category object         *)
(*           "error"  res.status(status).json({ error })                   *)
(*           "none"   res.json(x) with x undefined or a function: status   *)
(*                    200 and no JSON body                                 *)
(*           "throws" the handler threw a TypeError; it sent no response   *)
(*   read    whether readVideos was called                                 *)
(*   write   whether writeVideos was called, with `data` as its argument   *)
(* and in the record of a served request                                   *)
(*   before  the document when the request arrived                         *)
(*   loadOk, saveOk  whether readVideos and writeVideos succeeded          *)
(*   again   POST /api/categories only: the request served just before was *)
(*           a POST /api/categories of the same name                       *)
(***************************************************************************)
Fail(st, msg, rd) ==
    [kind |-> "error", status |-> st, error |-> msg, body |-> <<>>,
     read |-> rd, write |-> FALSE, data |-> EmptyCatalog]

Throws ==
    [kind |-> "throws", status |-> 0, error |-> "TypeError", body |-> <<>>,
     read |-> TRUE, write |-> FALSE, data |-> EmptyCatalog]

Sends(b) ==
    [kind |-> "json", status |-> 200, error |-> "", body |-> b,
     read |-> TRUE, write |-> FALSE, data |-> EmptyCatalog]

SendsObject(c) ==
    [kind |-> "object", status |-> 200, error |-> "", body |-> c,
     read |-> TRUE, write |-> FALSE, data |-> EmptyCatalog]

SendsNothing ==
    [kind |-> "none", status |-> 200, error |-> "", body |-> <<>>,
     read |-> TRUE, write |-> FALSE, data |-> EmptyCatalog]

\* await writeVideos(videos); res.json({ ok: true, <b> })
Saves(videos, b) ==
    [kind |-> "json", status |-> 200, error |-> "", body |-> b,
     read |-> TRUE, write |-> TRUE, data |-> videos]

(***************************************************************************)
(* Array indexing and Array.prototype.splice with a string index           *)
(***************************************************************************)
\* The numbers whose decimal text a request may carry as :index.
IndexNumbers == -1..MaxVideos

\* Number(index) is a number (not NaN).
IsNumeric(index) == \E i \in IndexNumbers : ToString(i) = index

ToNumber(index) == CHOOSE i \in IndexNumbers : ToString(i) = index

\* ToIntegerOrInfinity(index), which splice applies to its start: NaN is 0.
ToIntegerOrInfinity(index) == IF IsNumeric(index) THEN ToNumber(index) ELSE 0

\* Whether s[index] is truthy for an array s of video objects: an element
\* (index is the canonical text of 0..length-1), a non-zero length, or an
\* inherited method.
ElementTruthy(s, index) ==
    \/ IsNumeric(index) /\ ToNumber(index) >= 0 /\ ToNumber(index) < Len(s)
    \/ index = "length" /\ Len(s) > 0
    \/ index \in ArrayProtoNames

Min(a, b) == IF a < b THEN a ELSE b
Max(a, b) == IF a > b THEN a ELSE b

\* Mutant of Splice: splice(start) without a count removes to the end.
Splice_ToEnd(s, start, deleteCount) ==
    SubSeq(s, 1, IF start < 0 THEN Max(Len(s) + start, 0) ELSE Min(start, Len(s)))

\* s.splice(start, deleteCount): the array afterwards (0-based start).
Splice(s, start, deleteCount) ==
    LET len == Len(s)
        from == IF start < 0 THEN Max(len + start, 0) ELSE Min(start, len)
        cnt == Min(Max(deleteCount, 0), len - from)
    IN  SubSeq(s, 1, from) \o SubSeq(s, from + cnt + 1, len)

(***************************************************************************)
(* VIDEO ROUTES                                                            *)
(***************************************************************************)
\* GET /api/videos
getVideos(r, videos) == Sends(JsonCatalog(r, videos))

\* GET /api/videos/:category
getVideosByCategory(r, category, videos) ==
    IF r = "part_001"
    THEN \* res.json(videosData[category] || { videos: [] })
         IF category \in DOMAIN videos
         THEN SendsObject(JsonCategory(r, videos[category]))
         ELSE IF category \in ObjectProtoNames THEN SendsNothing
         ELSE SendsObject([videos |-> <<>>])
    ELSE IF ~Has(videos, category) THEN Fail(404, "Category not found", TRUE)
         ELSE IF category \in DOMAIN videos
              THEN Sends(JsonSeq(VideosOf(r, videos[category])))
              ELSE SendsNothing

\* Mutant of NewVideo: the url is stored as the title.
NewVideo_UrlAsTitle(r, body) ==
    [title |-> body.url, description |-> Or(body.description, ""),
     url |-> body.url]

\* const newVideo = { title, description: description || "", url };
\* if (thumbnail) newVideo.thumbnail = thumbnail;      (thumbnailed revisions)
NewVideo(r, body) ==
    IF Thumbnailed(r) /\ Truthy(body.thumbnail)
    THEN [title |-> body.title, description |-> Or(body.description, ""),
          url |-> body.url, thumbnail |-> body.thumbnail]
    ELSE [title |-> body.title, description |-> Or(body.description, ""),
          url |-> body.url]

\* POST /api/videos/:category
postVideo(r, category, body, videos) ==
    IF ChecksTitleUrl(r) /\ (~Truthy(body.title) \/ ~Truthy(body.url))
    THEN Fail(400, "Title and URL are required", FALSE)
    ELSE IF ~Has(videos, category) /\ ~AutoCreates(r)
    THEN Fail(404, "Category does not exist", TRUE)
    ELSE IF Has(videos, category) /\ category \notin DOMAIN videos
    THEN Throws   \* push of an inherited member is not a function
    ELSE LET c == IF category \in DOMAIN videos THEN videos[category]
                  ELSE EmptyCategory(r)
             s == Append(VideosOf(r, c), NewVideo(r, body))
         IN  Saves(Put(videos, category, WithVideos(r, c, s)), JsonSeq(s))

\* PATCH /api/videos/:category/:index/thumbnail
patchVideoThumbnail(r, category, index, thumbnail, videos) ==
    IF ~Truthy(thumbnail) THEN Fail(400, "Thumbnail URL is required", FALSE)
    ELSE IF ~Has(videos, category) THEN Fail(404, "Video not found", TRUE)
    ELSE IF category \notin DOMAIN videos
    THEN Throws                               \* Object.videos is undefined
    ELSE LET s == videos[category].videos IN
         IF ~ElementTruthy(s, index) THEN Fail(404, "Video not found", TRUE)
         ELSE IF index = "length"
         THEN Throws      \* a property of a number cannot be created (module code is strict)
         ELSE IF index \in ArrayProtoNames
         THEN Saves(videos, JsonSeq(s))       \* the property is set on the method
         ELSE LET i == ToNumber(index) + 1
                  s2 == [s EXCEPT ![i] = Put(s[i], "thumbnail", thumbnail)]
              IN  Saves(Put(videos, category,
                            [videos[category] EXCEPT !.videos = s2]),
                        JsonSeq(s2))

\* DELETE /api/videos/:category/:index
deleteVideo(r, category, index, videos) ==
    IF ~Has(videos, category) THEN Fail(404, "Video not found", TRUE)
    ELSE IF category \notin DOMAIN videos
    THEN \* videos[category] is the inherited function Object
         IF Thumbnailed(r) THEN Throws        \* Object.videos is undefined
         ELSE IF index = "length" THEN Throws \* Object.length is 1, no splice
         ELSE Fail(404, "Video not found", TRUE)
    ELSE LET s == VideosOf(r, videos[category]) IN
         IF ~ElementTruthy(s, index) THEN Fail(404, "Video not found", TRUE)
         ELSE LET s2 == Splice(s, ToIntegerOrInfinity(index), 1)
              IN  Saves(Put(videos, category, WithVideos(r, videos[category], s2)),
                        JsonSeq(s2))

(***************************************************************************)
(* CATEGORY ROUTES                                                         *)
(***************************************************************************)
\* GET /api/categories
getCategories(r, videos) ==
    IF Thumbnailed(r)
    THEN Sends({[name |-> n,
                 categoryThumbnail |-> Or(videos[n].categoryThumbnail, "")]
                : n \in DOMAIN videos})
    ELSE Sends(DOMAIN videos)

\* POST /api/categories
postCategory(r, name, videos) ==
    IF ~Truthy(name) THEN Fail(400, "Category name is required", FALSE)
    ELSE IF Has(videos, name) THEN Fail(400, "Category already exists", TRUE)
    ELSE LET v2 == Put(videos, name, EmptyCategory(r))
         IN  Saves(v2, DOMAIN v2)

\* PATCH /api/categories/:name/thumbnail
patchCategoryThumbnail(r, name, thumbnail, videos) ==
    IF ~Truthy(thumbnail) THEN Fail(400, "Thumbnail URL is required", FALSE)
    ELSE IF ~Has(videos, name) THEN Fail(404, "Category not found", TRUE)
    ELSE IF name \in DOMAIN videos
    THEN Saves(Put(videos, name,
                   [videos[name] EXCEPT !.categoryThumbnail = thumbnail]),
               thumbnail)
    ELSE Saves(videos, thumbnail)  \* the property is set on the function Object

\* Mutant of deleteCategory: the category is emptied, not deleted.
deleteCategory_Empties(r, name, videos) ==
    IF ~Has(videos, name) THEN Fail(404, "Category not found", TRUE)
    ELSE Saves(Put(videos, name, EmptyCategory(r)), DOMAIN videos \ {name})

\* DELETE /api/categories/:name
deleteCategory(r, name, videos) ==
    IF ~Has(videos, name) THEN Fail(404, "Category not found", TRUE)
    ELSE LET v2 == Remove(videos, name)
         IN  Saves(v2, DOMAIN v2)

(***************************************************************************)
(* What clients send                                                       *)
(***************************************************************************)
\* Category names the catalog can hold.
RealNames == {"a", "b"}

\* :category and :name path parameters.
Names == RealNames \cup ObjectProtoNames

\* The name field of a POST /api/categories body.
BodyNames == Names \cup {"", Undefined}

\* :index path parameters: numbers in and out of range (one negative), and
\* text that is no number but names a property of every array.
IndexStrings == {ToString(i) : i \in IndexNumbers} \cup {"length", "push"}

\* The thumbnail field of a PATCH body.
Thumbnails == {Undefined, "P"}

NoBody ==
    [title |-> Undefined, description |-> Undefined, url |-> Undefined,
     thumbnail |-> Undefined]

\* POST /api/videos/:category bodies: two complete ones, one without title,
\* one with an empty url.
Bodies ==
    { [NoBody EXCEPT !.title = "T", !.url = "U"],
      [title |-> "T", description |-> "D", url |-> "U", thumbnail |-> "P"],
      [NoBody EXCEPT !.url = "U"],
      [NoBody EXCEPT !.title = "T", !.url = ""] }

(***************************************************************************)
(* State                                                                   *)
(***************************************************************************)
VARIABLES
    rev,      \* the revision that is running
    file,     \* DATA_FILE
    last,     \* the request served last, what it read, wrote and answered
    flight,   \* SpecRace: per client, the request between its two awaits
    trip      \* SpecStore: a writeVideos call and the readVideos call after it

vars == <<rev, file, last, flight, trip>>

Clients == {1, 2}

Idle == [pc |-> "idle"]

NoRequest ==
    [op |-> "none", name |-> "", index |-> "", body |-> NoBody,
     kind |-> "none", status |-> 0, error |-> "", resp |-> <<>>,
     before |-> NoFile, read |-> FALSE, loadOk |-> FALSE,
     write |-> FALSE, written |-> EmptyCatalog, saveOk |-> FALSE,
     again |-> FALSE]

NoTrip ==
    [phase |-> "idle", arg |-> EmptyCatalog, wr |-> "ok", rd |-> "ok",
     got |-> EmptyCatalog]

Init ==
    /\ rev \in Revisions
    /\ file \in {NoFile, GoodFile(EmptyCatalog)}
    /\ last = NoRequest
    /\ flight = [c \in Clients |-> Idle]
    /\ trip = NoTrip

\* The catalog the handler worked on.
Loaded(q) == IF q.read /\ q.loadOk THEN q.before.data ELSE EmptyCatalog

\* One request served from readVideos to the response, nothing in between:
\* `out` is what the handler made of the catalog readVideos returned under
\* the read outcome rd; writeVideos, when called, ends in any of its outcomes.
Serve(op, name, index, body, out, rd) ==
    /\ ~out.read => rd = (IF file.state = "ok" THEN "ok" ELSE "fail")
    /\ \E wr \in (IF out.write THEN WriteOutcomes ELSE {"ok"}) :
          /\ file' = IF out.write THEN writeVideos(file, rev, out.data, wr)
                     ELSE file
          /\ last' = [op |-> op, name |-> name, index |-> index, body |-> body,
                      kind |-> out.kind, status |-> out.status,
                      error |-> out.error, resp |-> out.body, before |-> file,
                      read |-> out.read, loadOk |-> out.read /\ rd = "ok",
                      write |-> out.write, written |-> out.data,
                      saveOk |-> out.write /\ wr = "ok",
                      again |-> op = "postCategory" /\ last.op = op
                                /\ last.name = name]
    /\ UNCHANGED <<rev, flight, trip>>

GetVideos ==
    /\ HasRoute(rev, "getVideos")
    /\ \E rd \in ReadOutcomes(file) :
       \E out \in {getVideos(rev, readVideos(file, rd))} :
          Serve("getVideos", "", "", NoBody, out, rd)

GetVideosByCategory ==
    /\ HasRoute(rev, "getVideosByCategory")
    /\ \E category \in Names, rd \in ReadOutcomes(file) :
       \E out \in {getVideosByCategory(rev, category, readVideos(file, rd))} :
          Serve("getVideosByCategory", category, "", NoBody, out, rd)

PostVideo ==
    /\ HasRoute(rev, "postVideo")
    /\ TotalVideos(rev, file.data, DOMAIN file.data) < MaxVideos
    /\ \E category \in Names, body \in Bodies, rd \in ReadOutcomes(file) :
       \E out \in {postVideo(rev, category, body, readVideos(file, rd))} :
          Serve("postVideo", category, "", body, out, rd)

PatchVideoThumbnail ==
    /\ HasRoute(rev, "patchVideoThumbnail")
    /\ \E category \in Names, index \in IndexStrings, thumbnail \in Thumbnails,
          rd \in ReadOutcomes(file) :
       \E out \in {patchVideoThumbnail(rev, category, index, thumbnail,
                                       readVideos(file, rd))} :
          Serve("patchVideoThumbnail", category, index,
                [NoBody EXCEPT !.thumbnail = thumbnail], out, rd)

DeleteVideo ==
    /\ HasRoute(rev, "deleteVideo")
    /\ \E category \in Names, index \in IndexStrings, rd \in ReadOutcomes(file) :
       \E out \in {deleteVideo(rev, category, index, readVideos(file, rd))} :
          Serve("deleteVideo", category, index, NoBody, out, rd)

GetCategories ==
    /\ HasRoute(rev, "getCategories")
    /\ \E rd \in ReadOutcomes(file) :
       \E out \in {getCategories(rev, readVideos(file, rd))} :
          Serve("getCategories", "", "", NoBody, out, rd)

PostCategory ==
    /\ HasRoute(rev, "postCategory")
    /\ \E name \in BodyNames, rd \in ReadOutcomes(file) :
       \E out \in {postCategory(rev, name, readVideos(file, rd))} :
          Serve("postCategory", name, "", NoBody, out, rd)

PatchCategoryThumbnail ==
    /\ HasRoute(rev, "patchCategoryThumbnail")
    /\ \E name \in Names, thumbnail \in Thumbnails, rd \in ReadOutcomes(file) :
       \E out \in {patchCategoryThumbnail(rev, name, thumbnail,
                                          readVideos(file, rd))} :
          Serve("patchCategoryThumbnail", name, "",
                [NoBody EXCEPT !.thumbnail = thumbnail], out, rd)

DeleteCategory ==
    /\ HasRoute(rev, "deleteCategory")
    /\ \E name \in Names, rd \in ReadOutcomes(file) :
       \E out \in {deleteCategory(rev, name, readVideos(file, rd))} :
          Serve("deleteCategory", name, "", NoBody, out, rd)

Next ==
    \/ GetVideos
    \/ GetVideosByCategory
    \/ PostVideo
    \/ PatchVideoThumbnail
    \/ DeleteVideo
    \/ GetCategories
    \/ PostCategory
    \/ PatchCategoryThumbnail
    \/ DeleteCategory

Spec == Init /\ [][Next]_vars

\* The storage worked for the request served last: readVideos failed only
\* on an absent or unparsable document, writeVideos did not fail.
StorageWorked ==
    /\ last.read => (last.loadOk \/ last.before.state /= "ok")
    /\ last.write => last.saveOk

NextReliable == Next /\ StorageWorked'

\* Spec without storage failures.
SpecReliable == Init /\ [][NextReliable]_vars

(***************************************************************************)
(* Properties of one served request (Spec)                                 *)
(***************************************************************************)
\* The category names of a document (none when it is absent or unparsable).
Keys(f) == DOMAIN f.data

\* The video sequence a document holds for an existing category.
Stored(f, n) == VideosOf(rev, f.data[n])

\* Every category of the document `f` but `n` is in `g` with the same value.
OthersKept(f, g, n) ==
    \A m \in Keys(f) \ {n} : m \in Keys(g) /\ g.data[m] = f.data[m]

\* index is the ordinal of an existing video of category n of document f.
DenotesVideo(f, n, index) ==
    /\ n \in Keys(f)
    /\ IsNumeric(index)
    /\ ToNumber(index) >= 0
    /\ ToNumber(index) < Len(Stored(f, n))

\* C1: a POST /api/categories that follows a POST /api/categories of the same
\* non-empty name is rejected with 400 "Category already exists", saves
\* nothing, and the catalog then holds the name, with the entry the first
\* request left.
C1_SecondCreateRejected ==
    (last.op = "postCategory" /\ last.again /\ Truthy(last.name)) =>
        /\ last.status = 400
        /\ last.error = "Category already exists"
        /\ ~last.write
        /\ last.name \in Keys(file)
        /\ last.name \in Keys(last.before)
        /\ file.data[last.name] = last.before.data[last.name]

\* C2: in every revision a POST /api/videos/:category whose title or url is
\* missing or empty is answered 400 and saves nothing: the document is as
\* it was, whether or not the category exists.
C2_MissingTitleOrUrlRejected ==
    (last.op = "postVideo"
        /\ (~Truthy(last.body.title) \/ ~Truthy(last.body.url))) =>
        /\ last.status = 400
        /\ ~last.write
        /\ file = last.before

\* C4: a DELETE /api/videos/:category/:index whose category is absent or
\* whose index is not the ordinal of an existing video is answered 404 and
\* leaves the document unchanged.
C4_DeleteUnknownVideoNotFound ==
    (last.op = "deleteVideo"
        /\ ~DenotesVideo(last.before, last.name, last.index)) =>
        /\ last.status = 404
        /\ file = last.before

\* C6: GET /api/videos/:category answers 404 when the category is absent,
\* and answers 200 only for an existing category, with its video sequence.
C6_ListByCategoryNotFound ==
    (last.op = "getVideosByCategory") =>
        /\ last.name \notin Keys(last.before) => last.status = 404
        /\ last.status = 200 =>
              /\ last.name \in Keys(last.before)
              /\ last.kind = "json"
              /\ last.resp = Stored(last.before, last.name)

\* The request served last deleted the video at a valid index.
DeletesVideo ==
    last.op = "deleteVideo" /\ DenotesVideo(last.before, last.name, last.index)

\* The sequence `r` is `s` with exactly the element at 0-based i removed.
RemovedAt(s, i, r) ==
    /\ Len(r) = Len(s) - 1
    /\ \A j \in 0..(Len(s) - 1) :
          /\ j < i => r[j + 1] = s[j + 1]
          /\ j > i => r[j] = s[j + 1]

\* The document holds `r` for the category the request names and every other
\* category as before.
PersistedIn(r) ==
    /\ file.state = "ok"
    /\ Keys(file) = Keys(last.before) \cup {last.name}
    /\ Stored(file, last.name) = r
    /\ OthersKept(last.before, file, last.name)

\* C3 as claimed: for an existing category with sequence s and 0 <= i < Len(s),
\* DELETE /api/videos/:category/i answers 200, and the returned and the
\* persisted sequence are s with exactly the element at i removed; no other
\* category changes.
C3_DeleteRemovesExactlyOne ==
    DeletesVideo =>
        /\ last.status = 200
        /\ last.kind = "json"
        /\ RemovedAt(Stored(last.before, last.name), ToNumber(last.index), last.resp)
        /\ PersistedIn(last.resp)

\* C3 as amended: the same when readVideos succeeds, the persisted part when
\* writeVideos succeeds too.
C3_DeleteRemovesExactlyOne_Stored ==
    (DeletesVideo /\ last.loadOk) =>
        /\ last.status = 200
        /\ last.kind = "json"
        /\ RemovedAt(Stored(last.before, last.name), ToNumber(last.index), last.resp)
        /\ last.saveOk => PersistedIn(last.resp)

\* A video of a two-element category was deleted at index 0 and saved, so
\* the element that was at index 1 moved to index 0.
C3_Witness ==
    /\ DeletesVideo
    /\ last.loadOk /\ last.saveOk
    /\ last.index = "0"
    /\ Len(Stored(last.before, last.name)) = 2
    /\ Stored(last.before, last.name)[1] /= Stored(last.before, last.name)[2]
    /\ OthersKept(last.before, file, last.name)
    /\ Keys(last.before) = RealNames

\* The request served last posted a video with title and url to an existing
\* category.
PostsVideo ==
    /\ last.op = "postVideo"
    /\ last.name \in Keys(last.before)
    /\ Truthy(last.body.title)
    /\ Truthy(last.body.url)

\* The sequence `r` is `s` followed by one video made of the body.
AppendedTo(s, body, r) ==
    /\ Len(r) = Len(s) + 1
    /\ SubSeq(r, 1, Len(s)) = s
    /\ r[Len(r)].title = body.title
    /\ r[Len(r)].url = body.url
    /\ r[Len(r)].description =
          (IF body.description = Undefined THEN "" ELSE body.description)

\* C7 as claimed: for an existing category with sequence s, a POST with
\* non-empty title and url answers 200 and the returned and the persisted
\* sequence are s with the new video appended (title and url as given,
\* description "" when absent).
C7_PostAppends ==
    PostsVideo =>
        /\ last.status = 200
        /\ last.kind = "json"
        /\ AppendedTo(Stored(last.before, last.name), last.body, last.resp)
        /\ PersistedIn(last.resp)

\* C7 as amended: the same when readVideos succeeds, the persisted part when
\* writeVideos succeeds too.
C7_PostAppends_Stored ==
    (PostsVideo /\ last.loadOk) =>
        /\ last.status = 200
        /\ last.kind = "json"
        /\ AppendedTo(Stored(last.before, last.name), last.body, last.resp)
        /\ last.saveOk => PersistedIn(last.resp)

\* A video without description was posted to an existing empty category,
\* which became a one-element sequence, while another category exists.
C7_Witness ==
    /\ PostsVideo
    /\ last.loadOk /\ last.saveOk
    /\ Stored(last.before, last.name) = <<>>
    /\ last.body.description = Undefined
    /\ Len(Stored(file, last.name)) = 1
    /\ Keys(last.before) = RealNames

\* The routes that save.
Mutating ==
    {"postCategory", "postVideo", "deleteVideo", "deleteCategory",
     "patchCategoryThumbnail"}

\* C10 as claimed: after a mutating request answered 200, every category of
\* the document other than the one it names is still there with the same
\* videos and thumbnail, also when readVideos or writeVideos failed.
C10_OtherCategoriesKept ==
    (last.op \in Mutating /\ last.status = 200) =>
        OthersKept(last.before, file, last.name)

\* C10 as amended: the same when readVideos succeeded and writeVideos
\* succeeded or left the document untouched.
C10_OtherCategoriesKept_Stored ==
    (last.op \in Mutating /\ last.status = 200 /\ last.loadOk
        /\ (last.saveOk \/ file = last.before)) =>
        OthersKept(last.before, file, last.name)

\* A category was deleted and saved while another category holding a video
\* stayed as it was.
C10_Witness ==
    /\ last.op = "deleteCategory"
    /\ last.status = 200
    /\ last.loadOk /\ last.saveOk
    /\ last.name \in Keys(last.before)
    /\ \E m \in Keys(last.before) \ {last.name} :
          /\ Len(Stored(last.before, m)) > 0
          /\ m \in Keys(file)
          /\ file.data[m] = last.before.data[m]

\* The request served last was a 200 DELETE /api/categories/n of a category
\* the document held.
DeletedCategory(n) ==
    /\ last.op = "deleteCategory"
    /\ last.name = n
    /\ last.status = 200
    /\ n \in Keys(last.before)

\* The request served last created the name n.
CreatedCategory(n) ==
    /\ last.op \in {"postCategory", "postVideo"}
    /\ last.name = n
    /\ last.write
    /\ n \in DOMAIN last.written

\* The names a GET /api/categories answer lists.
ListedNames(resp) == IF Thumbnailed(rev) THEN {x.name : x \in resp} ELSE resp

\* The request served last, if a listing, shows nothing of category n.
ShowsNothingOf(n) ==
    /\ last.op = "getCategories" => n \notin ListedNames(last.resp)
    /\ last.op = "getVideos" => n \notin DOMAIN last.resp
    /\ (last.op = "getVideosByCategory" /\ last.name = n) =>
          \/ last.status = 404
          \/ last.kind = "object" /\ last.resp.videos = <<>>

\* A name absent from the document stays absent unless the request served
\* creates it, and no listing served from that document shows it.
StaysGone(n) ==
    n \notin Keys(last.before) =>
        /\ n \in Keys(file) => CreatedCategory(n)
        /\ ShowsNothingOf(n)

\* C5 as claimed, requests served one after another: a 200 DELETE of an
\* existing category leaves the name out of the returned name set and out of
\* the document, with the other categories unchanged; and from then on, until
\* a request creates the name, it stays out of the document and of every
\* listing (all categories, the full catalog, the category's videos).
C5_DeletedCategoryGone ==
    \A n \in RealNames :
        /\ DeletedCategory(n) =>
              /\ n \notin last.resp
              /\ n \notin Keys(file)
              /\ OthersKept(last.before, file, n)
        /\ StaysGone(n)

\* C5 as amended: the same for a DELETE whose writeVideos succeeded.
C5_DeletedCategoryGone_Stored ==
    \A n \in RealNames :
        /\ (DeletedCategory(n) /\ last.saveOk) =>
              /\ n \notin last.resp
              /\ n \notin Keys(file)
              /\ OthersKept(last.before, file, n)
        /\ StaysGone(n)

\* A category holding a video was deleted and saved, another one stayed.
C5_Witness ==
    \E n \in RealNames :
        /\ DeletedCategory(n)
        /\ last.saveOk
        /\ Len(Stored(last.before, n)) > 0
        /\ Keys(file) = RealNames \ {n}

(***************************************************************************)
(* SpecStore: writeVideos(C) followed by readVideos(), for the catalogs a  *)
(* handler can pass to writeVideos                                         *)
(***************************************************************************)
\* Bound: the number of videos of a catalog given to writeVideos here.
MaxStoreVideos == 1

\* The video objects a revision's POST handler builds.
VideoObjects(r) ==
    {NewVideo(r, b) : b \in {x \in Bodies :
        ChecksTitleUrl(r) => (Truthy(x.title) /\ Truthy(x.url))}}

\* Arrays of at most n video objects.
VideoArrays(r, n) == UNION {[1..k -> VideoObjects(r)] : k \in 0..n}

\* The category values of a revision holding at most n videos.
CategoryValues(r, n) ==
    IF Thumbnailed(r)
    THEN [categoryThumbnail : {"", "P"}, videos : VideoArrays(r, n)]
    ELSE VideoArrays(r, n)

\* The in-memory catalogs holding at most n videos.
Catalogs(r, n) ==
    {c \in UNION {[S -> CategoryValues(r, n)] : S \in SUBSET RealNames} :
        TotalVideos(r, c, DOMAIN c) <= n}

\* The store before the call: no document, an empty catalog, or a catalog
\* that holds one empty category.
InitStore ==
    /\ rev \in Revisions
    /\ file \in {NoFile, GoodFile(EmptyCatalog),
                 GoodFile(Put(EmptyCatalog, "a", EmptyCategory(rev)))}
    /\ last = NoRequest
    /\ flight = [c \in Clients |-> Idle]
    /\ trip = NoTrip

\* await writeVideos(C)
StoreSave ==
    /\ trip.phase = "idle"
    /\ \E C \in Catalogs(rev, MaxStoreVideos), wr \in WriteOutcomes :
          /\ file' = writeVideos(file, rev, C, wr)
          /\ trip' = [phase |-> "saved", arg |-> C, wr |-> wr, rd |-> "ok",
                      got |-> EmptyCatalog]
    /\ UNCHANGED <<rev, last, flight>>

\* await readVideos(), no writer in between
StoreLoad ==
    /\ trip.phase = "saved"
    /\ \E rd \in ReadOutcomes(file) :
          trip' = [trip EXCEPT !.phase = "loaded", !.rd = rd,
                               !.got = readVideos(file, rd)]
    /\ UNCHANGED <<rev, file, last, flight>>

NextStore == StoreSave \/ StoreLoad

SpecStore == InitStore /\ [][NextStore]_vars

\* obj[key] as JavaScript reads it: undefined when the property is absent.
Field(obj, key) == IF key \in DOMAIN obj THEN obj[key] ELSE Undefined

VideoKeys == {"title", "description", "url", "thumbnail"}

\* Every field of catalog y reads as it does in catalog x.
SameFields(x, y) ==
    /\ DOMAIN y = DOMAIN x
    /\ \A n \in DOMAIN x :
          /\ Thumbnailed(rev) => y[n].categoryThumbnail = x[n].categoryThumbnail
          /\ Len(VideosOf(rev, y[n])) = Len(VideosOf(rev, x[n]))
          /\ \A i \in 1..Len(VideosOf(rev, x[n])), k \in VideoKeys :
                Field(VideosOf(rev, y[n])[i], k) = Field(VideosOf(rev, x[n])[i], k)

\* C8 as claimed: readVideos() after writeVideos(C) returns a catalog equal
\* to C, whatever the outcome of writeVideos.
C8_RoundTrip == trip.phase = "loaded" => trip.got = trip.arg

\* C8 as amended: when writeVideos(C) and the readVideos() after it both
\* succeed, every field of the catalog returned reads as it does in C (a
\* property that is undefined in C is absent from the catalog returned).
C8_RoundTrip_Stored ==
    (trip.phase = "loaded" /\ trip.wr = "ok" /\ trip.rd = "ok") =>
        SameFields(trip.arg, trip.got)

\* A catalog of two categories, one holding a video, was written and read
\* back.
C8_Witness ==
    /\ trip.phase = "loaded"
    /\ trip.wr = "ok" /\ trip.rd = "ok"
    /\ DOMAIN trip.arg = RealNames
    /\ TotalVideos(rev, trip.arg, RealNames) = 1
    /\ trip.got = trip.arg

(***************************************************************************)
(* SpecRace: two requests in flight.  A handler runs to its first await    *)
(* (readVideos), then from the catalog read to its second await            *)
(* (writeVideos), then answers; the other request's steps fall in between. *)
(***************************************************************************)
\* The saving requests clients send here.
RaceRequests ==
    [op : {"postCategory", "deleteCategory"}, name : RealNames, index : {""},
     body : {NoBody}]
    \cup [op : {"postVideo"}, name : RealNames, index : {""},
          body : {[NoBody EXCEPT !.title = "T", !.url = "U"]}]
    \cup [op : {"deleteVideo"}, name : RealNames, index : {"0"}, body : {NoBody}]

\* The handler of a request applied to a catalog.
Handle(r, q, videos) ==
    CASE q.op = "postCategory" -> postCategory(r, q.name, videos)
      [] q.op = "deleteCategory" -> deleteCategory(r, q.name, videos)
      [] q.op = "postVideo" -> postVideo(r, q.name, q.body, videos)
      [] OTHER -> deleteVideo(r, q.name, q.index, videos)

Other(c) == CHOOSE d \in Clients : d /= c

\* Client c's request arrives, reads the document and works on the catalog:
\* it answers at once (an error) or goes on to writeVideos.
RaceLoad(c) ==
    /\ flight[c].pc = "idle"
    /\ \E q \in RaceRequests, rd \in ReadOutcomes(file) :
          /\ HasRoute(rev, q.op)
          /\ q.op = "postVideo" =>
                TotalVideos(rev, file.data, DOMAIN file.data) < MaxVideos
          /\ \E out \in {Handle(rev, q, readVideos(file, rd))} :
                flight' = [flight EXCEPT ![c] =
                    [pc |-> IF out.write THEN "saving" ELSE "done",
                     req |-> q, snap |-> readVideos(file, rd),
                     status |-> out.status,
                     write |-> out.write, data |-> out.data,
                     saveOk |-> FALSE, nth |-> 0]]
    /\ UNCHANGED <<rev, file, last, trip>>

\* Client c's writeVideos ends and the handler answers.  nth is 2 when the
\* other client's request saved before and is still on record, else 1.
RaceSave(c) ==
    /\ flight[c].pc = "saving"
    /\ \E wr \in WriteOutcomes :
          /\ file' = writeVideos(file, rev, flight[c].data, wr)
          /\ flight' = [flight EXCEPT ![c] =
                [@ EXCEPT !.pc = "done", !.saveOk = (wr = "ok"),
                          !.nth = IF flight[Other(c)].pc = "done"
                                     /\ flight[Other(c)].write
                                  THEN 2 ELSE 1]]
    /\ UNCHANGED <<rev, last, trip>>

\* The client has its answer; its next request may come.
RaceDone(c) ==
    /\ flight[c].pc = "done"
    /\ flight' = [flight EXCEPT ![c] = Idle]
    /\ UNCHANGED <<rev, file, last, trip>>

NextRace == \E c \in Clients : RaceLoad(c) \/ RaceSave(c) \/ RaceDone(c)

SpecRace == Init /\ [][NextRace]_vars

\* Client c's request saved first, client d's saved last, both worked on the
\* same catalog, both answered 200 and both writes succeeded.
LostUpdateRun(c, d) ==
    /\ c /= d
    /\ flight[c].pc = "done" /\ flight[d].pc = "done"
    /\ flight[c].write /\ flight[d].write
    /\ flight[c].status = 200 /\ flight[d].status = 200
    /\ flight[c].saveOk /\ flight[d].saveOk
    /\ flight[c].nth = 1 /\ flight[d].nth = 2
    /\ flight[c].snap = flight[d].snap

\* C9: when two requests in flight read the same catalog and both answer 200,
\* the document after both saves is the catalog of the request that saved
\* last: what the first one added to the catalog it read is not in it.
C9_LostUpdate ==
    \A c, d \in Clients :
        LostUpdateRun(c, d) =>
            /\ file = GoodFile(JsonCatalog(rev, flight[d].data))
            /\ \A n \in DOMAIN flight[c].data \ DOMAIN flight[c].snap :
                  n \in Keys(file) => n \in DOMAIN flight[d].data

\* Two POST /api/categories of different names were in flight together,
\* both answered 200, and the document holds only the name saved last.
C9_Witness ==
    \E c, d \in Clients :
        /\ LostUpdateRun(c, d)
        /\ flight[c].req.op = "postCategory"
        /\ flight[d].req.op = "postCategory"
        /\ flight[c].req.name /= flight[d].req.name
        /\ flight[c].req.name \in DOMAIN flight[c].data
        /\ flight[c].req.name \notin Keys(file)
        /\ flight[d].req.name \in Keys(file)

=============================================================================
